---- MODULE Spec2Model ----
(***************************************************************************)
(* Model of Filters::GbfToHtml (src/src/backend/filters/gbftohtml.cpp):    *)
(* the token handler, the streaming pass that dispatches to it, and the    *)
(* annotation post-processing pass of processText.                         *)
(*                                                                         *)
(* Text is a sequence of one-character strings.  SWBuf holds bytes and     *)
(* QString holds characters; the names "x00", "xE9", "xEF", "xBF", "xBD"   *)
(* stand for the bytes 0x00, 0xE9, 0xEF, 0xBF, 0xBD and "uFFFD" for the    *)
(* character U+FFFD ("x60" is the grave accent, which a TLA+ string cannot *)
(* hold).  Positions are 0-based as in the source; -1 is "no match".       *)
(***************************************************************************)
EXTENDS Integers, Sequences, FiniteSets, TLC

VARIABLES
    src,                  \* the text unit handed to processText: literal characters and tokens
    module,               \* the owning module as processText sees it
    cur,                  \* index of the next item of src the streaming pass reads
    buf,                  \* sword::SWBuf & buf
    swordFootnote,        \* UserData::swordFootnote
    hasFootnotePreTag,    \* UserData::hasFootnotePreTag
    suspendTextPassThru,  \* BasicFilterUserData::suspendTextPassThru
    pc,                   \* position in processText
    t,                    \* QString t (the text not yet segmented)
    list,                 \* QStringList list
    idx,                  \* index in list of the entry the for loop is at
    e,                    \* the entry being rewritten
    pos,                  \* int pos
    insertedTag,          \* bool insertedTag
    hasLemmaAttr,         \* bool hasLemmaAttr
    hasMorphAttr,         \* bool hasMorphAttr
    tagAttributeStart,    \* int tagAttributeStart
    result,               \* QString result
    filtered,             \* the buffer as GBFHTML::processText left it
    run,                  \* how many times the post-processing pass was started
    out1,                 \* the buffer as the first post-processing pass left it
    table,                \* the token substitutes of the filter instance m_gbfFilter
    other,                \* a second render call on the same filter instance: its text
                          \* unit, position, buffer, Render Context and state
    returned              \* the values processText has returned (none while it runs)

inVars   == <<src, module>>
udVars   == <<swordFootnote, hasFootnotePreTag, suspendTextPassThru>>
segVars  == <<t, list>>
fragVars == <<idx, e, pos, insertedTag, hasLemmaAttr, hasMorphAttr, tagAttributeStart, result>>
histVars == <<filtered, run, out1>>
vars     == <<src, module, cur, buf, swordFootnote, hasFootnotePreTag, suspendTextPassThru,
              pc, t, list, idx, e, pos, insertedTag, hasLemmaAttr, hasMorphAttr,
              tagAttributeStart, result, filtered, run, out1, table, other, returned>>

(***************************************************************************)
(* Bounds of the explored inputs.                                          *)
(***************************************************************************)
MaxLen == 4
ModuleMaxLen == 2

(***************************************************************************)
(* QString / SWBuf primitives.                                             *)
(***************************************************************************)
At(s, p) == s[p + 1]

Left(s, n) == IF n >= Len(s) THEN s ELSE SubSeq(s, 1, n)

Mid(s, p) == SubSeq(s, p + 1, Len(s))

Insert(s, p, x) == Left(s, p) \o x \o Mid(s, p)

Remove(s, p, n) == Left(s, p) \o Mid(s, p + n)

Replace(s, p, n, x) == Left(s, p) \o x \o Mid(s, p + n)

SpaceChars == {" ", "\t", "\n", "\r"}

PunctChars == {"!", "\"", "#", "%", "&", "'", "(", ")", "*", ",", "-", ".", "/",
               ":", ";", "?", "@", "[", "\\", "]", "_", "{", "}"}

IsSpace(c) == c \in SpaceChars

IsPunct(c) == c \in PunctChars

RECURSIVE TrimLeft(_)
TrimLeft(s) == IF s # <<>> /\ IsSpace(Head(s)) THEN TrimLeft(Tail(s)) ELSE s

RECURSIVE TrimRight(_)
TrimRight(s) ==
    IF s # <<>> /\ IsSpace(s[Len(s)]) THEN TrimRight(SubSeq(s, 1, Len(s) - 1)) ELSE s

Trimmed(s) == TrimRight(TrimLeft(s))

RemoveChars(s, cs) == LET Keep(c) == c \notin cs IN SelectSeq(s, Keep)

StartsWithAt(s, p, x) ==
    /\ p >= 0
    /\ p + Len(x) <= Len(s)
    /\ SubSeq(s, p + 1, p + Len(x)) = x

Min(S) == CHOOSE x \in S : \A y \in S : x <= y

\* The first position from p on where Match holds, or -1.
FirstFrom(s, p, Match(_)) ==
    IF \E q \in p..(Len(s) - 1) : Match(q)
    THEN CHOOSE q \in p..(Len(s) - 1) : Match(q) /\ \A r \in p..(q - 1) : ~Match(r)
    ELSE -1

FindChar(s, c, p) == LET Match(q) == At(s, q) = c IN FirstFrom(s, p, Match)

FindCharIn(s, cs, p) == LET Match(q) == At(s, q) \in cs IN FirstFrom(s, p, Match)

(***************************************************************************)
(* The literal strings of gbftohtml.cpp.                                   *)
(***************************************************************************)
SpanItalic ==
    <<"<", "s", "p", "a", "n", " ", "c", "l", "a", "s", "s", "=", "\"", "i", "t", "a", "l",
      "i", "c", "\"", ">">>

SpanBold ==
    <<"<", "s", "p", "a", "n", " ", "c", "l", "a", "s", "s", "=", "\"", "b", "o", "l", "d",
      "\"", ">">>

SpanJesusWords ==
    <<"<", "s", "p", "a", "n", " ", "c", "l", "a", "s", "s", "=", "\"", "j", "e", "s", "u",
      "s", "w", "o", "r", "d", "s", "\"", ">">>

SpanQuotation ==
    <<"<", "s", "p", "a", "n", " ", "c", "l", "a", "s", "s", "=", "\"", "q", "u", "o", "t",
      "a", "t", "i", "o", "n", "\"", ">">>

SpanSup ==
    <<"<", "s", "p", "a", "n", " ", "c", "l", "a", "s", "s", "=", "\"", "s", "u", "p", "\"",
      ">">>

SpanSub ==
    <<"<", "s", "p", "a", "n", " ", "c", "l", "a", "s", "s", "=", "\"", "s", "u", "b", "\"",
      ">">>

SpanRight ==
    <<"<", "s", "p", "a", "n", " ", "c", "l", "a", "s", "s", "=", "\"", "r", "i", "g", "h",
      "t", "\"", ">">>

SpanCenter ==
    <<"<", "s", "p", "a", "n", " ", "c", "l", "a", "s", "s", "=", "\"", "c", "e", "n", "t",
      "e", "r", "\"", ">">>

SpanEnd == <<"<", "/", "s", "p", "a", "n", ">">>

UnderlineBegin == <<"<", "u", ">">>

UnderlineEnd == <<"<", "/", "u", ">">>

DivBookTitle ==
    <<"<", "d", "i", "v", " ", "c", "l", "a", "s", "s", "=", "\"", "b", "o", "o", "k", "t",
      "i", "t", "l", "e", "\"", ">">>

DivSectionTitle ==
    <<"<", "d", "i", "v", " ", "c", "l", "a", "s", "s", "=", "\"", "s", "e", "c", "t", "i",
      "o", "n", "t", "i", "t", "l", "e", "\"", ">">>

DivEnd == <<"<", "/", "d", "i", "v", ">">>

FontEnd == <<"<", "/", "f", "o", "n", "t", ">">>

LineBreak == <<"<", "b", "r", "/", ">">>

GreaterThan == <<"&", "g", "t", ";">>

LessThan == <<"&", "l", "t", ";">>

FootnoteClose == <<")", "<", "/", "s", "m", "a", "l", "l", ">", "<", "/", "f", "o", "n", "t", ">">>

AnchorEnd == <<"<", "/", "a", ">">>

CiteBegin == <<"<", "c", "i", "t", "e", ">">>

CiteEnd == <<"<", "/", "c", "i", "t", "e", ">">>

SpanFootnotePre ==
    <<"<", "s", "p", "a", "n", " ", "c", "l", "a", "s", "s", "=", "\"", "f", "o", "o", "t",
      "n", "o", "t", "e", "p", "r", "e", "\"", ">">>

FootnoteBegin ==
    <<" ", "<", "s", "p", "a", "n", " ", "c", "l", "a", "s", "s", "=", "\"", "f", "o", "o",
      "t", "n", "o", "t", "e", "\"", " ", "n", "o", "t", "e", "=", "\"">>

FootnoteEnd == <<"\"", ">", "*", "<", "/", "s", "p", "a", "n", ">", " ">>

FontBegin == <<"<", "f", "o", "n", "t", " ", "f", "a", "c", "e", "=", "\"">>

TagEnd == <<"\"", ">">>

SpanBegin == <<"<", "s", "p", "a", "n", " ">>

LemmaName == <<"l", "e", "m", "m", "a">>

MorphName == <<"m", "o", "r", "p", "h">>

AttrOpen == <<"=", "\"">>

AttrClose == <<"\"", ">">>

AttrCloseSpace == <<"\"", " ">>

AsciiPrintable ==
    <<" ", "!", "\"", "#", "$", "%", "&", "'", "(", ")", "*", "+", ",", "-", ".", "/", "0",
      "1", "2", "3", "4", "5", "6", "7", "8", "9", ":", ";", "<", "=", ">", "?", "@", "A", "B",
      "C", "D", "E", "F", "G", "H", "I", "J", "K", "L", "M", "N", "O", "P", "Q", "R", "S", "T",
      "U", "V", "W", "X", "Y", "Z", "[", "\\", "]", "^", "_", "x60", "a", "b", "c", "d", "e",
      "f", "g", "h", "i", "j", "k", "l", "m", "n", "o", "p", "q", "r", "s", "t", "u", "v", "w",
      "x", "y", "z", "{", "|", "}", "~">>

(***************************************************************************)
(* The Substitution Table as the constructor leaves it: the entries of the *)
(* base class that the constructor does not replace, without Rf, and the   *)
(* entries the constructor adds.  A table is a set of <<token, literal>>.  *)
(***************************************************************************)
\* A variant of removeTokenSubstitute (line 42) that removes nothing.
RemoveNoTokenSubstitute(tab, k) == tab

RemoveTokenSubstitute(tab, k) == {p \in tab : p[1] # k}

AddTokenSubstitute(tab, k, v) == RemoveTokenSubstitute(tab, k) \cup {<<k, v>>}

BaseSubstitutes ==
    { <<<<"R", "f">>, FootnoteClose>>, <<<<"R", "x">>, AnchorEnd>>,
      <<<<"P", "P">>, CiteBegin>>, <<<<"P", "p">>, CiteEnd>> }

ConstructorEntries ==
    << <<<<"F", "I">>, SpanItalic>>,     <<<<"F", "i">>, SpanEnd>>,
       <<<<"F", "B">>, SpanBold>>,       <<<<"F", "b">>, SpanEnd>>,
       <<<<"F", "R">>, SpanJesusWords>>, <<<<"F", "r">>, SpanEnd>>,
       <<<<"F", "U">>, UnderlineBegin>>, <<<<"F", "u">>, UnderlineEnd>>,
       <<<<"F", "O">>, SpanQuotation>>,  <<<<"F", "o">>, SpanEnd>>,
       <<<<"F", "S">>, SpanSup>>,        <<<<"F", "s">>, SpanEnd>>,
       <<<<"F", "V">>, SpanSub>>,        <<<<"F", "v">>, SpanEnd>>,
       <<<<"T", "T">>, DivBookTitle>>,   <<<<"T", "t">>, DivEnd>>,
       <<<<"T", "S">>, DivSectionTitle>>, <<<<"T", "s">>, DivEnd>>,
       <<<<"F", "n">>, FontEnd>>,
       <<<<"C", "L">>, LineBreak>>,      <<<<"C", "M">>, LineBreak>>,
       <<<<"C", "G">>, GreaterThan>>,    <<<<"C", "T">>, LessThan>>,
       <<<<"J", "R">>, SpanRight>>,      <<<<"J", "C">>, SpanCenter>>,
       <<<<"J", "L">>, SpanEnd>> >>

RECURSIVE AddAll(_, _)
AddAll(tab, entries) ==
    IF entries = <<>> THEN tab
    ELSE AddAll(AddTokenSubstitute(tab, Head(entries)[1], Head(entries)[2]), Tail(entries))

TokenSubstitutes ==
    AddAll(RemoveTokenSubstitute(BaseSubstitutes, <<"R", "f">>), ConstructorEntries)

\* A variant of substituteToken (line 262) that finds no entry for any token.
HasNoSubstitute(token) == FALSE

\* substituteToken (line 262) reads the table of the filter instance.
HasSubstitute(token) == \E p \in table : p[1] = token

Substitute(token) == (CHOOSE p \in table : p[1] = token)[2]

(***************************************************************************)
(* hexDigitValue, hexToChar and the byte a char holds.  -1 is abort().     *)
(***************************************************************************)
DecDigits == <<"0", "1", "2", "3", "4", "5", "6", "7", "8", "9">>

LowerHex == <<"a", "b", "c", "d", "e", "f">>

UpperHex == <<"A", "B", "C", "D", "E", "F">>

IndexOf(seq, c) == CHOOSE n \in 1..Len(seq) : seq[n] = c

Elems(seq) == {seq[n] : n \in 1..Len(seq)}

\* A variant of lines 240-253 that takes a character that is no hex digit
\* as 0 instead of aborting.
hexDigitValueGuessing(hex) ==
    IF hex \in Elems(DecDigits) THEN IndexOf(DecDigits, hex) - 1
    ELSE IF hex \in Elems(LowerHex) THEN IndexOf(LowerHex, hex) - 1 + 10
    ELSE IF hex \in Elems(UpperHex) THEN IndexOf(UpperHex, hex) - 1 + 10
    ELSE 0

\* A variant of lines 240-253 that leaves out the + 10 of the upper-case digits.
hexDigitValueUpperFromZero(hex) ==
    IF hex \in Elems(DecDigits) THEN IndexOf(DecDigits, hex) - 1
    ELSE IF hex \in Elems(LowerHex) THEN IndexOf(LowerHex, hex) - 1 + 10
    ELSE IF hex \in Elems(UpperHex) THEN IndexOf(UpperHex, hex) - 1
    ELSE -1

hexDigitValue(hex) ==
    IF hex \in Elems(DecDigits) THEN IndexOf(DecDigits, hex) - 1
    ELSE IF hex \in Elems(LowerHex) THEN IndexOf(LowerHex, hex) - 1 + 10
    ELSE IF hex \in Elems(UpperHex) THEN IndexOf(UpperHex, hex) - 1 + 10
    ELSE -1

\* token[n] of a C string: the terminating 0 byte when n is its length.
CharAt(token, n) == IF n < Len(token) THEN At(token, n) ELSE "x00"

hexToChar(token) ==
    LET first == hexDigitValue(CharAt(token, 2)) IN
    IF first = -1 THEN -1
    ELSE LET second == hexDigitValue(CharAt(token, 3)) IN
         IF second = -1 THEN -1 ELSE ((first * 16) + second) % 256

HexDigitName(n) == IF n < 10 THEN DecDigits[n + 1] ELSE UpperHex[n - 9]

AsciiChars == {"\t", "\n", "\r"} \cup Elems(AsciiPrintable)

ByteChar(n) ==
    IF n = 0 THEN "x00"
    ELSE IF n \in 32..126 THEN AsciiPrintable[n - 31]
    ELSE IF n = 9 THEN "\t"
    ELSE IF n = 10 THEN "\n"
    ELSE IF n = 13 THEN "\r"
    ELSE "x" \o HexDigitName(n \div 16) \o HexDigitName(n % 16)

RECURSIVE Number(_)
Number(n) == IF n < 10 THEN <<DecDigits[n + 1]>> ELSE Number(n \div 10) \o <<DecDigits[(n % 10) + 1]>>

(***************************************************************************)
(* QString::fromUtf8(buf.c_str()) and buf = result.toUtf8().constData().   *)
(* A C string ends at its first 0 byte.  ASCII decodes to itself; a lead   *)
(* byte C2..DF with a continuation byte 80..BF is one character (named by  *)
(* its two bytes); EF BF BD is U+FFFD; any other byte from 80 on starts    *)
(* no valid sequence and decodes to U+FFFD.  Other three- and four-byte    *)
(* sequences are not modelled and occur in no text unit explored.          *)
(***************************************************************************)
HighBytes == {ByteChar(n) : n \in 128..255}

LeadBytes2 == {ByteChar(n) : n \in 194..223}

ContinuationBytes == {ByteChar(n) : n \in 128..191}

ReplacementBytes == <<"xEF", "xBF", "xBD">>

TwoByteChar(lead, cont) == "u" \o lead \o cont

CStr(b) ==
    LET z == FindChar(b, "x00", 0) IN IF z = -1 THEN b ELSE Left(b, z)

RECURSIVE DecodeUtf8(_)
DecodeUtf8(b) ==
    LET h == FindCharIn(b, HighBytes, 0) IN
    IF h = -1 THEN b
    ELSE IF StartsWithAt(b, h, ReplacementBytes)
    THEN Left(b, h) \o <<"uFFFD">> \o DecodeUtf8(Mid(b, h + 3))
    ELSE IF At(b, h) \in LeadBytes2 /\ h + 1 < Len(b) /\ At(b, h + 1) \in ContinuationBytes
    THEN Left(b, h) \o <<TwoByteChar(At(b, h), At(b, h + 1))>> \o DecodeUtf8(Mid(b, h + 2))
    ELSE Left(b, h) \o <<"uFFFD">> \o DecodeUtf8(Mid(b, h + 1))

FromUtf8(b) == DecodeUtf8(CStr(b))

IsTwoByteChar(c) == \E l \in LeadBytes2 : \E n \in ContinuationBytes : c = TwoByteChar(l, n)

EncodeChar(c) ==
    IF c = "uFFFD" THEN ReplacementBytes
    ELSE IF IsTwoByteChar(c)
    THEN LET l == CHOOSE l \in LeadBytes2 : \E n \in ContinuationBytes : c = TwoByteChar(l, n)
             n == CHOOSE n \in ContinuationBytes : c = TwoByteChar(l, n)
         IN  <<l, n>>
    ELSE <<c>>

RECURSIVE EncodeUtf8(_)
EncodeUtf8(q) ==
    LET Wide(p) == At(q, p) \notin AsciiChars
        h == FirstFrom(q, 0, Wide)
    IN  IF h = -1 THEN q
        ELSE Left(q, h) \o EncodeChar(At(q, h)) \o EncodeUtf8(Mid(q, h + 1))

ToUtf8(q) == CStr(EncodeUtf8(q))

(***************************************************************************)
(* Filters::GbfToHtml::handleToken.  ud is the Render Context; the result  *)
(* is the buffer, the Render Context, the value returned and whether the   *)
(* process aborted.                                                        *)
(***************************************************************************)
ModuleName == <<"M">>

KeyShortText == <<"K">>

InitialFootnote == 0

\* A variant of the strncmp tests of lines 274-307 that ignores case.
UpperLetters ==
    <<"A", "B", "C", "D", "E", "F", "G", "H", "I", "J", "K", "L", "M", "N", "O", "P", "Q", "R",
      "S", "T", "U", "V", "W", "X", "Y", "Z">>

LowerLetters ==
    <<"a", "b", "c", "d", "e", "f", "g", "h", "i", "j", "k", "l", "m", "n", "o", "p", "q", "r",
      "s", "t", "u", "v", "w", "x", "y", "z">>

FoldCase(c) ==
    IF c \in Elems(UpperLetters) THEN LowerLetters[IndexOf(UpperLetters, c)] ELSE c

TokenIsIgnoringCase(token, name) ==
    /\ Len(token) >= 2
    /\ FoldCase(token[1]) = FoldCase(name[1])
    /\ FoldCase(token[2]) = FoldCase(name[2])

TokenIs(token, name) == Len(token) >= 2 /\ SubSeq(token, 1, 2) = name

Outcome(b, ud, ret, aborted) == [buf |-> b, ud |-> ud, ret |-> ret, aborted |-> aborted]

\* GBFHTML::handleToken of the Sword library, for a token it does not know.
BaseHandleToken(b, token, ud) == Outcome(b, ud, FALSE, FALSE)

FontFace(token) == RemoveChars(SubSeq(token, 3, Len(token)), {"\""})

\* A variant of lines 274-278 that appends nothing while pass-through is
\* suspended.
HandleWordMarkerUnlessSuspended(b, token, ud) ==
    Outcome(IF ud.suspendTextPassThru THEN b ELSE b \o <<"<">> \o token \o <<">">>,
            ud, TRUE, FALSE)

\* lines 274-278
HandleWordMarker(b, token, ud) == Outcome(b \o <<"<">> \o token \o <<">">>, ud, TRUE, FALSE)

\* lines 279-281
HandleRB(b, token, ud) ==
    Outcome(b \o SpanFootnotePre, [ud EXCEPT !.hasFootnotePreTag = TRUE], TRUE, FALSE)

\* A variant of line 294 that numbers the footnotes from one more.
FootnoteNumberPlusOne(ud) == Number(ud.swordFootnote + 1)

\* line 294: QString::number(myUserData->swordFootnote)
FootnoteNumber(ud) == Number(ud.swordFootnote)

\* A variant of lines 282-297 that leaves pass-through as it is.
HandleRFNotSuspending(b, token, ud) ==
    LET b1 == IF ud.hasFootnotePreTag THEN b \o SpanEnd ELSE b
        b2 == b1 \o FootnoteBegin \o ModuleName \o <<"/">> \o KeyShortText
                 \o <<"/">> \o FootnoteNumber(ud) \o FootnoteEnd
    IN  Outcome(b2,
                [ud EXCEPT !.hasFootnotePreTag = FALSE,
                           !.swordFootnote = ud.swordFootnote + 1],
                TRUE, FALSE)

\* A variant of lines 282-297 that does not close a pending preamble span.
HandleRFLeavingPreamble(b, token, ud) ==
    LET b2 == b \o FootnoteBegin \o ModuleName \o <<"/">> \o KeyShortText
                \o <<"/">> \o FootnoteNumber(ud) \o FootnoteEnd
    IN  Outcome(b2,
                [ud EXCEPT !.swordFootnote = ud.swordFootnote + 1,
                           !.suspendTextPassThru = TRUE],
                TRUE, FALSE)

\* lines 282-297
HandleRF(b, token, ud) ==
    LET b1 == IF ud.hasFootnotePreTag THEN b \o SpanEnd ELSE b
        b2 == b1 \o FootnoteBegin \o ModuleName \o <<"/">> \o KeyShortText
                 \o <<"/">> \o FootnoteNumber(ud) \o FootnoteEnd
    IN  Outcome(b2,
                [ud EXCEPT !.hasFootnotePreTag = FALSE,
                           !.swordFootnote = ud.swordFootnote + 1,
                           !.suspendTextPassThru = TRUE],
                TRUE, FALSE)

\* lines 298-299
HandleRf(b, token, ud) == Outcome(b, [ud EXCEPT !.suspendTextPassThru = FALSE], TRUE, FALSE)

\* lines 300-306
HandleFN(b, token, ud) == Outcome(b \o FontBegin \o FontFace(token) \o TagEnd, ud, TRUE, FALSE)

\* line 308: BT_ASSERT(tokenLength == 4u).  A build that checks assertions
\* aborts when it fails; a build that does not goes on to line 309.
AssertAborts(token, asserts) == asserts /\ Len(token) # 4

\* lines 307-309.  hexDigitValue aborts on a character that is no hex digit.
HandleCA(b, token, ud, asserts) ==
    LET c == hexToChar(token) IN
    IF AssertAborts(token, asserts) \/ c = -1 THEN Outcome(b, ud, FALSE, TRUE)
    ELSE Outcome(b \o <<ByteChar(c)>>, ud, TRUE, FALSE)

\* asserts: whether the build checks BT_ASSERT.
handleToken(b, token, ud, asserts) ==
    IF HasSubstitute(token) THEN Outcome(b \o Substitute(token), ud, TRUE, FALSE)
    ELSE IF \/ TokenIs(token, <<"W", "G">>)
            \/ TokenIs(token, <<"W", "H">>)
            \/ TokenIs(token, <<"W", "T">>)
        THEN HandleWordMarker(b, token, ud)
    ELSE IF TokenIs(token, <<"R", "B">>) THEN HandleRB(b, token, ud)
    ELSE IF TokenIs(token, <<"R", "F">>) THEN HandleRF(b, token, ud)
    ELSE IF TokenIs(token, <<"R", "f">>) THEN HandleRf(b, token, ud)
    ELSE IF TokenIs(token, <<"F", "N">>) THEN HandleFN(b, token, ud)
    ELSE IF TokenIs(token, <<"C", "A">>) THEN HandleCA(b, token, ud, asserts)
    ELSE BaseHandleToken(b, token, ud)

(***************************************************************************)
(* The regular expressions of processText.                                 *)
(***************************************************************************)
KindLetters == {"H", "G", "T"}

SegPunct == {".", ",", ";", ":"}

\* <W[HGT][^>]*> at p: the position after the closing > or -1.
MarkerEnd(s, p) ==
    IF /\ p >= 0
       /\ p + 3 < Len(s)
       /\ At(s, p) = "<"
       /\ At(s, p + 1) = "W"
       /\ At(s, p + 2) \in KindLetters
    THEN LET q == FindChar(s, ">", p + 3) IN IF q = -1 THEN -1 ELSE q + 1
    ELSE -1

RECURSIVE SkipSpaces(_, _)
SkipSpaces(s, p) == IF p < Len(s) /\ IsSpace(At(s, p)) THEN SkipSpaces(s, p + 1) ELSE p

\* One repetition of the group [.,;:]?<W[HGT][^>]*>\s* at p: its end or -1.
SegGroupEnd(s, p) ==
    LET q == IF p < Len(s) /\ At(s, p) \in SegPunct THEN p + 1 ELSE p
        m == MarkerEnd(s, q)
    IN  IF m = -1 THEN -1 ELSE SkipSpaces(s, m)

\* ([.,;:]?<W[HGT][^>]*>\s*)+ at p, greedy: its end or -1.
SegRunEnd(s, p) ==
    LET RunEnd[q \in 0..Len(s)] ==
            LET g == SegGroupEnd(s, q) IN
            IF g = -1 THEN -1
            ELSE LET r == RunEnd[g] IN IF r = -1 THEN g ELSE r
    IN  RunEnd[p]

\* QRegExp("([.,;:]?<W[HGT][^>]*>\\s*)+").indexIn(s)
SegIndexIn(s) == LET Match(p) == SegGroupEnd(s, p) # -1 IN FirstFrom(s, 0, Match)

SegMatchedLength(s, p) == SegRunEnd(s, p) - p

\* A variant of lines 153 and 227 that starts the search one character
\* after from.
TagIndexInPast(s, from) ==
    LET Match(p) == MarkerEnd(s, p) # -1 IN FirstFrom(s, from + 1, Match)

\* QRegExp("<W([HGT])([^>]*)>").indexIn(s, from)
TagIndexIn(s, from) == LET Match(p) == MarkerEnd(s, p) # -1 IN FirstFrom(s, from, Match)

TagMatchedLength(s, p) == MarkerEnd(s, p) - p

TagCap1(s, p) == <<At(s, p + 2)>>

TagCap2(s, p) == SubSeq(s, p + 4, MarkerEnd(s, p) - 1)

\* QRegExp(name + "=\".+(?=\")"), minimal, from p: the match at p ends before
\* the first quote that has at least one character before it.
AttrMatchEnd(s, name, p) ==
    IF StartsWithAt(s, p, name \o AttrOpen)
    THEN FindChar(s, "\"", p + Len(name) + 3)
    ELSE -1

AttrIndexOf(s, name, from) ==
    LET Match(p) == AttrMatchEnd(s, name, p) # -1 IN FirstFrom(s, from, Match)

\* A variant of line 207 in which the match ends at the opening quote of the
\* attribute instead of at the end of its value.
AttrMatchedLengthOfName(s, name, p) == Len(name) + 2

AttrMatchedLength(s, name, p) == AttrMatchEnd(s, name, p) - p

(***************************************************************************)
(* The pieces of the per-entry loop of processText.                        *)
(***************************************************************************)
\* line 148: is the entry markers with no word to attach them to?
NoWordToWrap(entry) == Left(RemoveChars(Trimmed(entry), SegPunct), 2) = <<"<", "W">>

IsMorphAt(s, p) == TagCap1(s, p) = <<"T">>

\* A variant of line 162 that keeps the kind letter in the value of every
\* marker, a morphology marker included.
ValueAtKeepingKind(s, p) == TagCap1(s, p) \o TagCap2(s, p)

\* line 162
ValueAt(s, p) == IF IsMorphAt(s, p) THEN TagCap2(s, p) ELSE TagCap1(s, p) \o TagCap2(s, p)

\* A variant of line 164 that takes every value as non-empty.
isEmptyNever(value) == FALSE

\* line 164: value.isEmpty()
isEmpty(value) == value = <<>>

AttrName(isMorph) == IF isMorph THEN MorphName ELSE LemmaName

\* A variant of lines 180-187 that looks for the start of the word in front
\* of the marker: back from the closing tag over blanks and punctuation, then
\* back over the word.
RECURSIVE BackOver(_, _, _)
BackOver(s, p, skipping) ==
    IF p > 0 /\ ((IsSpace(At(s, p - 1)) \/ IsPunct(At(s, p - 1))) <=> skipping)
    THEN BackOver(s, p - 1, skipping)
    ELSE p

StartPosOfLastWord(s, startPos, limit) == BackOver(s, BackOver(s, limit - 7, TRUE), FALSE)

\* lines 180-187: skip blanks and punctuation at the beginning of the entry.
RECURSIVE StartPos(_, _, _)
StartPos(s, startPos, limit) ==
    IF startPos < limit /\ (IsSpace(At(s, startPos)) \/ IsPunct(At(s, startPos)))
    THEN StartPos(s, startPos + 1, limit)
    ELSE startPos

\* A variant of lines 170-191 that replaces one character more than the
\* marker.
FirstMarkerAndOneMore(s, p) ==
    LET isMorph == IsMorphAt(s, p)
        value   == ValueAt(s, p)
        s1      == Replace(s, p, TagMatchedLength(s, p) + 1, SpanEnd)
        p1      == p + 7
        rep     == SpanBegin \o AttrName(isMorph) \o AttrOpen \o value \o AttrClose
        start   == StartPos(s1, 0, p1)
    IN  [e |-> Insert(s1, start, rep),
         pos |-> p1 + Len(rep),
         tagAttributeStart |-> start + 6,
         hasLemmaAttr |-> ~isMorph,
         hasMorphAttr |-> isMorph]

\* lines 170-191: the first marker of the entry becomes </span> and the
\* opening tag goes in front of the word.
FirstMarker(s, p) ==
    LET isMorph == IsMorphAt(s, p)
        value   == ValueAt(s, p)
        s1      == Replace(s, p, TagMatchedLength(s, p), SpanEnd)
        p1      == p + 7
        rep     == SpanBegin \o AttrName(isMorph) \o AttrOpen \o value \o AttrClose
        start   == StartPos(s1, 0, p1)
    IN  [e |-> Insert(s1, start, rep),
         pos |-> p1 + Len(rep),
         tagAttributeStart |-> start + 6,
         hasLemmaAttr |-> ~isMorph,
         hasMorphAttr |-> isMorph]

\* A variant of lines 194-221 that puts the attribute of a new kind at the
\* end of the opening tag instead of at tagAttributeStart.
LaterMarkerAppending(s, p, tas, hasLemma, hasMorph) ==
    LET isMorph == IsMorphAt(s, p)
        value   == ValueAt(s, p)
        s1      == Remove(s, p, TagMatchedLength(s, p))
    IN  IF tas = -1
        THEN [e |-> s1, pos |-> p, hasLemmaAttr |-> hasLemma, hasMorphAttr |-> hasMorph]
        ELSE IF (~isMorph /\ hasLemma) \/ (isMorph /\ hasMorph)
        THEN LET name     == AttrName(isMorph)
                 foundPos == AttrIndexOf(s1, name, tas)
             IN  IF foundPos # -1
                 THEN [e |-> Insert(s1, foundPos + AttrMatchedLength(s1, name, foundPos),
                                    <<"|">> \o value),
                       pos |-> p + Len(value) + 1,
                       hasLemmaAttr |-> ~isMorph,
                       hasMorphAttr |-> isMorph]
                 ELSE [e |-> s1, pos |-> p, hasLemmaAttr |-> hasLemma,
                       hasMorphAttr |-> hasMorph]
        ELSE LET attr == <<" ">> \o AttrName(isMorph) \o AttrOpen \o value \o <<"\"">>
             IN  [e |-> Insert(s1, FindChar(s1, ">", tas), attr),
                  pos |-> p + Len(attr),
                  hasLemmaAttr |-> ~isMorph,
                  hasMorphAttr |-> isMorph]

\* lines 194-221: a later marker is removed and its value goes into the
\* opening tag.
LaterMarker(s, p, tas, hasLemma, hasMorph) ==
    LET isMorph == IsMorphAt(s, p)
        value   == ValueAt(s, p)
        s1      == Remove(s, p, TagMatchedLength(s, p))
    IN  IF tas = -1
        THEN [e |-> s1, pos |-> p, hasLemmaAttr |-> hasLemma, hasMorphAttr |-> hasMorph]
        ELSE IF (~isMorph /\ hasLemma) \/ (isMorph /\ hasMorph)
        THEN LET name     == AttrName(isMorph)
                 foundPos == AttrIndexOf(s1, name, tas)
             IN  IF foundPos # -1
                 THEN [e |-> Insert(s1, foundPos + AttrMatchedLength(s1, name, foundPos),
                                    <<"|">> \o value),
                       pos |-> p + Len(value) + 1,
                       hasLemmaAttr |-> ~isMorph,
                       hasMorphAttr |-> isMorph]
                 ELSE [e |-> s1, pos |-> p, hasLemmaAttr |-> hasLemma,
                       hasMorphAttr |-> hasMorph]
        ELSE LET attr == AttrName(isMorph) \o AttrOpen \o value \o AttrCloseSpace
             IN  [e |-> Insert(s1, tas, attr),
                  pos |-> p + Len(attr),
                  hasLemmaAttr |-> ~isMorph,
                  hasMorphAttr |-> isMorph]

(***************************************************************************)
(* The text units and modules explored.  A text unit is a sequence of      *)
(* items: a literal character or a token (the text between < and >).       *)
(***************************************************************************)
Lit(c) == [k |-> "lit", s |-> <<c>>]

Tok(name) == [k |-> "tok", s |-> name]

Text(chars) == [n \in 1..Len(chars) |-> Lit(chars[n])]

WH1 == Tok(<<"W", "H", "1">>)

WT2 == Tok(<<"W", "T", "2">>)

WT == Tok(<<"W", "T">>)

WH == Tok(<<"W", "H">>)

FU == Tok(<<"F", "U">>)

Atoms == {Lit("a"), Lit(" "), Lit("."), WH1, WT2, WT}

SeqsUpTo(A, n) == UNION {[1..m -> A] : m \in 0..n}

\* Am Anfang<WH07225> schuf<WH01254><WTH8804>   (the comment at line 107)
AmAnfang ==
    Text(<<"A", "m", " ", "A", "n", "f", "a", "n", "g">>)
    \o <<Tok(<<"W", "H", "0", "7", "2", "2", "5">>)>>
    \o Text(<<" ", "s", "c", "h", "u", "f">>)
    \o <<Tok(<<"W", "H", "0", "1", "2", "5", "4">>), Tok(<<"W", "T", "H", "8", "8", "0", "4">>)>>

\* word<WH>
WordWH == Text(<<"w", "o", "r", "d">>) \o <<WH>>

\* word<WT>   (the comment at line 108)
WordWT == Text(<<"w", "o", "r", "d">>) \o <<WT>>

\* a<WH1>..<WH1>
PunctLed == <<Lit("a"), WH1, Lit("."), Lit("."), WH1>>

\* a<WH1>..<WH1><WT2>
PunctLedTwo == <<Lit("a"), WH1, Lit("."), Lit("."), WH1, WT2>>

\* <FU><WH1>
MarkupOnly == <<FU, WH1>>

CAE9 == Tok(<<"C", "A", "E", "9">>)

CA00 == Tok(<<"C", "A", "0", "0">>)

\* <CAE9>a<WH1>, <CAE9>a and a<WH1><CA00>a: the byte 0xE9 is no UTF-8, and
\* a 0 byte ends a C string.
Latin1Word == <<CAE9, Lit("a"), WH1>>

Latin1Only == <<CAE9, Lit("a")>>

NulAfterMarker == <<Lit("a"), WH1, CA00, Lit("a")>>

\* <CAc3><CAA9><WH1>: the two bytes of one UTF-8 character
Utf8Word == <<Tok(<<"C", "A", "c", "3">>), Tok(<<"C", "A", "A", "9">>), WH1>>

\* a<WH1><WH2><WG3> and a<WT2><WT3><WT21>: runs of markers of one kind
LemmaRun ==
    <<Lit("a"), WH1, Tok(<<"W", "H", "2">>), Tok(<<"W", "G", "3">>)>>

MorphRun ==
    <<Lit("a"), WT2, Tok(<<"W", "T", "3">>), Tok(<<"W", "T", "2", "1">>)>>

\* . a a<WH1>: punctuation and a blank, two words, a marker
LeadingPunct == Text(<<".", " ", "a", " ", "a">>) \o <<WH1>>

\* a<WH1><CAZZ>: ZZ is no pair of hexadecimal digits
BadEscape == <<Lit("a"), WH1, Tok(<<"C", "A", "Z", "Z">>)>>

\* a<FU>b<WH1><Fu>: a marker between <u> and </u>
Underlined == <<Lit("a"), FU, Lit("b"), WH1, Tok(<<"F", "u">>)>>

Examples ==
    {AmAnfang, WordWH, WordWT, PunctLed, PunctLedTwo, MarkupOnly, Latin1Word, Latin1Only,
     NulAfterMarker, Utf8Word, LemmaRun, MorphRun, LeadingPunct, BadEscape, Underlined}

Inputs == SeqsUpTo(Atoms, MaxLen) \cup Examples

Modules ==
    [processEntryAttributes : BOOLEAN, found : BOOLEAN,
     lemmas : BOOLEAN, morphTags : BOOLEAN, strongNumbers : BOOLEAN]

FullModule ==
    [processEntryAttributes |-> TRUE, found |-> TRUE,
     lemmas |-> TRUE, morphTags |-> TRUE, strongNumbers |-> TRUE]

(***************************************************************************)
(* State after construction of the filter and the call of processText.     *)
(***************************************************************************)
\* A Render Context as createUserData makes it, and the state of a second
\* render call when there is none.
FreshUserData ==
    [swordFootnote |-> InitialFootnote, hasFootnotePreTag |-> FALSE,
     suspendTextPassThru |-> FALSE]

NoOtherCall == [src |-> <<>>, cur |-> 1, buf |-> <<>>, ud |-> FreshUserData, pc |-> "none"]

Init ==
    /\ src \in Inputs
    /\ module \in Modules
    /\ Len(src) <= ModuleMaxLen \/ module = FullModule
    /\ ~module.found => ~(module.lemmas \/ module.morphTags \/ module.strongNumbers)
    /\ cur = 1
    /\ buf = <<>>
    /\ swordFootnote = InitialFootnote
    /\ hasFootnotePreTag = FALSE
    /\ suspendTextPassThru = FALSE
    /\ pc = "filter"
    /\ t = <<>>
    /\ list = <<>>
    /\ idx = 0
    /\ e = <<>>
    /\ pos = -1
    /\ insertedTag = FALSE
    /\ hasLemmaAttr = FALSE
    /\ hasMorphAttr = FALSE
    /\ tagAttributeStart = -1
    /\ result = <<>>
    /\ filtered = <<>>
    /\ run = 1
    /\ out1 = <<>>
    /\ table = TokenSubstitutes
    /\ returned = <<>>
    /\ other = NoOtherCall

(***************************************************************************)
(* GBFHTML::processText (line 91): the streaming pass.  Literal text is    *)
(* appended unless pass-through is suspended; a token goes to handleToken. *)
(***************************************************************************)
UserData ==
    [swordFootnote |-> swordFootnote, hasFootnotePreTag |-> hasFootnotePreTag,
     suspendTextPassThru |-> suspendTextPassThru]

\* Literal text reaches the buffer unless pass-through is suspended.
PassThru(b, text, ud) ==
    Outcome(IF ud.suspendTextPassThru THEN b ELSE b \o text, ud, TRUE, FALSE)

Dispatch ==
    /\ pc = "filter"
    /\ cur <= Len(src)
    /\ \E asserts \in BOOLEAN :
       LET item == src[cur]
           o    == IF item.k = "tok"
                   THEN handleToken(buf, item.s, UserData, asserts)
                   ELSE PassThru(buf, item.s, UserData)
       IN  /\ buf' = o.buf
           /\ swordFootnote' = o.ud.swordFootnote
           /\ hasFootnotePreTag' = o.ud.hasFootnotePreTag
           /\ suspendTextPassThru' = o.ud.suspendTextPassThru
           /\ pc' = IF o.aborted THEN "abort" ELSE "filter"
    /\ cur' = cur + 1
    /\ UNCHANGED <<inVars, table, other, returned, segVars, fragVars, histVars>>

FilterReturn ==
    /\ pc = "filter"
    /\ cur > Len(src)
    /\ filtered' = buf
    /\ pc' = "guard"
    /\ UNCHANGED <<inVars, table, other, returned, cur, buf, udVars, segVars, fragVars, run, out1>>

(***************************************************************************)
(* processText, lines 93-105: the guards of the post-processing pass.      *)
(***************************************************************************)
\* A variant of line 93 that takes per-entry attribute processing as enabled.
AlwaysProcessEntryAttributes(m) == TRUE

\* line 93: module->isProcessEntryAttributes()
isProcessEntryAttributes(m) == m.processEntryAttributes

HasCapability(m) == m.lemmas \/ m.morphTags \/ m.strongNumbers

\* A variant of lines 97-104 that also returns early when the registry does
\* not resolve the module.
LacksCapabilityOrUnresolved(m) == ~HasCapability(m)

\* lines 97-104: the registry resolves the module and it has none of the three.
LacksCapability(m) == m.found /\ ~HasCapability(m)

SkipEntryAttributes ==
    /\ pc = "guard"
    /\ ~isProcessEntryAttributes(module)
    /\ returned' = <<1>>
    /\ pc' = "done"
    /\ UNCHANGED <<inVars, table, other, cur, buf, udVars, segVars, fragVars, histVars>>

SkipCapabilities ==
    /\ pc = "guard"
    /\ isProcessEntryAttributes(module)
    /\ LacksCapability(module)
    /\ returned' = <<1>>
    /\ pc' = "done"
    /\ UNCHANGED <<inVars, table, other, cur, buf, udVars, segVars, fragVars, histVars>>

(***************************************************************************)
(* processText, lines 112-131: split the text into entries that end with   *)
(* a run of markers.                                                       *)
(***************************************************************************)
\* A variant of lines 118-119 that goes on to the entry loop when no marker
\* is found.
AfterFirstIndexInAlwaysOn(p) == IF p = -1 THEN "tail" ELSE "segment"

\* lines 118-119: where processText goes after the first indexIn.
AfterFirstIndexIn(p) == IF p = -1 THEN "done" ELSE "segment"

FindFirstTag ==
    /\ pc = "guard"
    /\ isProcessEntryAttributes(module)
    /\ ~LacksCapability(module)
    /\ t' = FromUtf8(buf)
    /\ list' = <<>>
    /\ pos' = SegIndexIn(t')
    /\ pc' = AfterFirstIndexIn(pos')
    /\ returned' = IF pc' = "done" THEN <<1>> ELSE returned
    /\ UNCHANGED <<inVars, table, other, cur, buf, udVars, histVars,
                   idx, e, insertedTag, hasLemmaAttr, hasMorphAttr, tagAttributeStart, result>>

SegmentStep ==
    /\ pc = "segment"
    /\ LET partLength == pos + SegMatchedLength(t, pos) IN
       /\ list' = Append(list, Left(t, partLength))
       /\ t' = Mid(t, partLength)
    /\ pos' = SegIndexIn(t')
    /\ pc' = IF pos' # -1 THEN "segment" ELSE "tail"
    /\ UNCHANGED <<inVars, table, other, returned, cur, buf, udVars, histVars,
                   idx, e, insertedTag, hasLemmaAttr, hasMorphAttr, tagAttributeStart, result>>

SegmentTail ==
    /\ pc = "tail"
    /\ list' = IF t # <<>> THEN Append(list, t) ELSE list
    /\ t' = <<>>
    /\ result' = <<>>
    /\ idx' = 1
    /\ pc' = "entry"
    /\ UNCHANGED <<inVars, table, other, returned, cur, buf, udVars, histVars,
                   e, pos, insertedTag, hasLemmaAttr, hasMorphAttr, tagAttributeStart>>

(***************************************************************************)
(* processText, lines 140-231: rewrite each entry and append it to result. *)
(***************************************************************************)
EntryVerbatim ==
    /\ pc = "entry"
    /\ idx <= Len(list)
    /\ NoWordToWrap(list[idx])
    /\ e' = list[idx]
    /\ pc' = "append"
    /\ UNCHANGED <<inVars, table, other, returned, cur, buf, udVars, segVars, histVars,
                   idx, pos, insertedTag, hasLemmaAttr, hasMorphAttr, tagAttributeStart, result>>

EntryBegin ==
    /\ pc = "entry"
    /\ idx <= Len(list)
    /\ ~NoWordToWrap(list[idx])
    /\ e' = list[idx]
    /\ pos' = TagIndexIn(e', 0)
    /\ insertedTag' = FALSE
    /\ hasLemmaAttr' = FALSE
    /\ hasMorphAttr' = FALSE
    /\ tagAttributeStart' = -1
    /\ pc' = IF pos' # -1 THEN "marker" ELSE "append"
    /\ UNCHANGED <<inVars, table, other, returned, cur, buf, udVars, segVars, histVars, idx, result>>

\* A variant of line 165 that goes on with the loop (continue) instead of
\* leaving it.
AfterEmptyValueContinue == "marker"

\* line 165: break leaves the loop of the entry.
AfterEmptyValue == "append"

\* lines 164-166
MarkerEmpty ==
    /\ pc = "marker"
    /\ isEmpty(ValueAt(e, pos))
    /\ pc' = AfterEmptyValue
    /\ UNCHANGED <<inVars, table, other, returned, cur, buf, udVars, segVars, fragVars, histVars>>

\* A variant of line 226 that leaves insertedTag as it is.
InsertedTagKept(inserted) == inserted

\* line 226: insertedTag = true
InsertedTagSet(inserted) == TRUE

\* lines 169-192 and 226-227
MarkerFirst ==
    /\ pc = "marker"
    /\ ~isEmpty(ValueAt(e, pos))
    /\ ~insertedTag
    /\ LET r == FirstMarker(e, pos) IN
       /\ e' = r.e
       /\ tagAttributeStart' = r.tagAttributeStart
       /\ hasLemmaAttr' = r.hasLemmaAttr
       /\ hasMorphAttr' = r.hasMorphAttr
       /\ pos' = TagIndexIn(r.e, r.pos)
    /\ insertedTag' = InsertedTagSet(insertedTag)
    /\ pc' = IF pos' # -1 THEN "marker" ELSE "append"
    /\ UNCHANGED <<inVars, table, other, returned, cur, buf, udVars, segVars, histVars, idx, result>>

\* lines 193-227
MarkerLater ==
    /\ pc = "marker"
    /\ ~isEmpty(ValueAt(e, pos))
    /\ insertedTag
    /\ LET r == LaterMarker(e, pos, tagAttributeStart, hasLemmaAttr, hasMorphAttr) IN
       /\ e' = r.e
       /\ hasLemmaAttr' = r.hasLemmaAttr
       /\ hasMorphAttr' = r.hasMorphAttr
       /\ pos' = TagIndexIn(r.e, r.pos)
    /\ pc' = IF pos' # -1 THEN "marker" ELSE "append"
    /\ UNCHANGED <<inVars, table, other, returned, cur, buf, udVars, segVars, histVars,
                   idx, insertedTag, tagAttributeStart, result>>

\* line 230 (and line 149 for an entry left as it is)
AppendEntry ==
    /\ pc = "append"
    /\ result' = result \o e
    /\ idx' = idx + 1
    /\ pc' = "entry"
    /\ UNCHANGED <<inVars, table, other, returned, cur, buf, udVars, segVars, histVars,
                   e, pos, insertedTag, hasLemmaAttr, hasMorphAttr, tagAttributeStart>>

\* lines 233-236
Finish ==
    /\ pc = "entry"
    /\ idx > Len(list)
    /\ buf' = IF list # <<>> THEN ToUtf8(result) ELSE buf
    /\ returned' = <<1>>
    /\ pc' = "done"
    /\ UNCHANGED <<inVars, table, other, cur, udVars, segVars, fragVars, histVars>>

(***************************************************************************)
(* The post-processing pass of processText (lines 93-236) started once     *)
(* more on the buffer it returned.                                         *)
(***************************************************************************)
RunAgain ==
    /\ pc = "done"
    /\ run = 1
    /\ out1' = buf
    /\ run' = 2
    /\ returned' = <<>>
    /\ pc' = "guard"
    /\ UNCHANGED <<inVars, table, other, cur, buf, udVars, segVars, fragVars, filtered>>

Next ==
    \/ Dispatch
    \/ FilterReturn
    \/ SkipEntryAttributes
    \/ SkipCapabilities
    \/ FindFirstTag
    \/ SegmentStep
    \/ SegmentTail
    \/ EntryVerbatim
    \/ EntryBegin
    \/ MarkerEmpty
    \/ MarkerFirst
    \/ MarkerLater
    \/ AppendEntry
    \/ Finish
    \/ RunAgain

Spec == Init /\ [][Next]_vars

(***************************************************************************)
(* The same steps under the scheduling of the code: processText runs on    *)
(* the calling thread without waiting for anything, so a step that can be  *)
(* taken is taken.                                                         *)
(***************************************************************************)
LiveMaxLen == 3

LiveInputs == SeqsUpTo(Atoms, LiveMaxLen) \cup Examples

LiveInit == Init /\ src \in LiveInputs

LiveSpec == LiveInit /\ [][Next]_vars /\ WF_vars(Next)

(***************************************************************************)
(* The streaming pass alone, over text units that exercise every branch    *)
(* of handleToken.                                                         *)
(***************************************************************************)
StreamMaxLen == 3

FI == Tok(<<"F", "I">>)

RB == Tok(<<"R", "B">>)

RF == Tok(<<"R", "F">>)

Rf == Tok(<<"R", "f">>)

CA41 == Tok(<<"C", "A", "4", "1">>)

CAZZ == Tok(<<"C", "A", "Z", "Z">>)

FNx == Tok(<<"F", "N", "x", "\"", "y">>)

LowerRf == Tok(<<"r", "f">>)

StreamAtoms == {Lit("a"), FI, RB, RF, Rf, WH1, CA41, CAZZ, FNx, LowerRf}

\* One token for every entry of the table.
SubstitutedUnits == {<<Tok(p[1])>> : p \in TokenSubstitutes}

\* CA followed by two characters: every pair of hex digits in either case,
\* and pairs with a character that is no hex digit.
DigitChars == Elems(DecDigits) \cup Elems(LowerHex) \cup Elems(UpperHex) \cup {"Z", "g", " "}

CAUnits ==
    {<<Tok(<<"C", "A", h, l>>)>> : h \in DigitChars, l \in DigitChars}
    \cup {<<Tok(<<"C", "A">>)>>, <<Tok(<<"C", "A", "4">>)>>,
          <<Tok(<<"C", "A", "4", "1", "x">>)>>, <<Tok(<<"C", "A", "Z", "Z", "Z">>)>>,
          <<RF, CA41>>, <<Lit("a"), CA41, Lit("a")>>, <<Lit("a"), CAZZ, Lit("a")>>}

MarkerPayloads == {<<>>, <<"1">>, <<"H", "8", "8", "0", "4">>}

WordMarkerUnits ==
    UNION {{<<Tok(<<"W", k>> \o v)>>, <<RF, Tok(<<"W", k>> \o v)>>, <<RB, Tok(<<"W", k>> \o v)>>}
           : k \in KindLetters, v \in MarkerPayloads}

\* Tokens that differ from the handled ones in case or length, and tokens
\* the handler does not know.
OtherTokens ==
    {<<"r", "f">>, <<"r", "b">>, <<"R", "b">>, <<"r", "F">>, <<"w", "h">>, <<"w", "g">>,
     <<"w", "t">>, <<"W", "h">>, <<"f", "n">>, <<"c", "a", "4", "1">>, <<"C", "a", "4", "1">>,
     <<"f", "i">>, <<"F", "I", "x">>, <<"X", "X">>, <<"R">>, <<"W">>, <<>>}

OtherUnits ==
    UNION {{<<Tok(n)>>, <<RF, Tok(n)>>, <<RB, RF, Tok(n), Lit("a")>>} : n \in OtherTokens}

\* <RB>text<RF><Rf>, the same with a footnote body and text after it, and a
\* text unit with eleven footnotes.
PreambleFootnote == <<RB>> \o Text(<<"t", "e", "x", "t">>) \o <<RF, Rf>>

PreambleFootnoteBody ==
    <<RB>> \o Text(<<"t", "e", "x", "t">>) \o <<RF>> \o Text(<<"n", "o", "t", "e">>)
    \o <<FI, Rf>> \o Text(<<"m", "o", "r", "e">>)

ElevenFootnotes == [n \in 1..22 |-> IF n % 2 = 1 THEN RF ELSE Rf]

\* <RF>a<Rf>more
FootnoteThenText == <<RF, Lit("a"), Rf>> \o Text(<<"m", "o", "r", "e">>)

StreamExamples == {PreambleFootnote, PreambleFootnoteBody, ElevenFootnotes, FootnoteThenText}

StreamInputs ==
    SeqsUpTo(StreamAtoms, StreamMaxLen) \cup SubstitutedUnits \cup CAUnits
    \cup WordMarkerUnits \cup OtherUnits \cup StreamExamples

StreamInit ==
    /\ src \in StreamInputs
    /\ module = FullModule
    /\ cur = 1
    /\ buf = <<>>
    /\ swordFootnote = InitialFootnote
    /\ hasFootnotePreTag = FALSE
    /\ suspendTextPassThru = FALSE
    /\ pc = "filter"
    /\ t = <<>>
    /\ list = <<>>
    /\ idx = 0
    /\ e = <<>>
    /\ pos = -1
    /\ insertedTag = FALSE
    /\ hasLemmaAttr = FALSE
    /\ hasMorphAttr = FALSE
    /\ tagAttributeStart = -1
    /\ result = <<>>
    /\ filtered = <<>>
    /\ run = 1
    /\ out1 = <<>>
    /\ table = TokenSubstitutes
    /\ returned = <<>>
    /\ other = NoOtherCall

StreamNext ==
    \/ Dispatch
    \/ FilterReturn

StreamSpec == StreamInit /\ [][StreamNext]_vars

(***************************************************************************)
(* Two render calls on the one filter instance (m_gbfFilter of             *)
(* CSwordBackend::Private), each with the buffer and the Render Context    *)
(* it was given.  Their token dispatches interleave in any order.          *)
(***************************************************************************)
ConcMaxLen == 2

ConcAtoms == {Lit("a"), RB, RF, Rf, FI}

ConcInputs == SeqsUpTo(ConcAtoms, ConcMaxLen)

ConcInit ==
    /\ src \in ConcInputs
    /\ module = FullModule
    /\ cur = 1
    /\ buf = <<>>
    /\ swordFootnote = InitialFootnote
    /\ hasFootnotePreTag = FALSE
    /\ suspendTextPassThru = FALSE
    /\ pc = "filter"
    /\ t = <<>>
    /\ list = <<>>
    /\ idx = 0
    /\ e = <<>>
    /\ pos = -1
    /\ insertedTag = FALSE
    /\ hasLemmaAttr = FALSE
    /\ hasMorphAttr = FALSE
    /\ tagAttributeStart = -1
    /\ result = <<>>
    /\ filtered = <<>>
    /\ run = 1
    /\ out1 = <<>>
    /\ table = TokenSubstitutes
    /\ returned = <<>>
    /\ \E items \in ConcInputs :
           other = [src |-> items, cur |-> 1, buf |-> <<>>, ud |-> FreshUserData,
                    pc |-> "filter"]

\* A variant of the userData argument of handleToken (lines 261-266) that
\* is kept in the filter instance, so that every call uses the same one.
SharedUserData == UserData

\* lines 261-266: the Render Context the second call passes to handleToken.
OtherUserData == other.ud

\* Dispatch, for the second call.
OtherDispatch ==
    /\ other.pc = "filter"
    /\ other.cur <= Len(other.src)
    /\ \E asserts \in BOOLEAN :
       LET item == other.src[other.cur]
           o    == IF item.k = "tok"
                   THEN handleToken(other.buf, item.s, OtherUserData, asserts)
                   ELSE PassThru(other.buf, item.s, OtherUserData)
       IN  other' = [other EXCEPT !.buf = o.buf,
                                  !.ud = o.ud,
                                  !.pc = IF o.aborted THEN "abort" ELSE "filter",
                                  !.cur = other.cur + 1]
    /\ UNCHANGED <<inVars, table, returned, cur, buf, udVars, pc, segVars, fragVars, histVars>>

\* FilterReturn, for the second call.
OtherReturn ==
    /\ other.pc = "filter"
    /\ other.cur > Len(other.src)
    /\ other' = [other EXCEPT !.pc = "guard"]
    /\ UNCHANGED <<inVars, table, returned, cur, buf, udVars, pc, segVars, fragVars, histVars>>

ConcNext ==
    \/ Dispatch
    \/ FilterReturn
    \/ OtherDispatch
    \/ OtherReturn

ConcSpec == ConcInit /\ [][ConcNext]_vars

(***************************************************************************)
(* Vocabulary of the properties.                                           *)
(***************************************************************************)
Done == pc = "done"

FirstRunDone == pc = "done" /\ run = 1

SecondRunDone == pc = "done" /\ run = 2

\* The module lets the post-processing pass run.
PassRuns == module.processEntryAttributes /\ ~(module.found /\ ~HasCapability(module))

Contains(s, x) == \E p \in 0..(Len(s) - Len(x)) : StartsWithAt(s, p, x)

Count(s, x) == Cardinality({p \in 0..(Len(s) - Len(x)) : StartsWithAt(s, p, x)})

HasRawMarker(s) == \E p \in 0..(Len(s) - 1) : MarkerEnd(s, p) # -1

IsMarkerItem(item) == item.k = "tok" /\ MarkerEnd(<<"<">> \o item.s \o <<">">>, 0) # -1

IsMorphItem(item) == IsMarkerItem(item) /\ item.s[2] = "T"

\* What the marker stands for: the payload of a morphology marker, the
\* origin letter and the payload of an origin-number marker.
ItemValue(item) == IF IsMorphItem(item) THEN SubSeq(item.s, 3, Len(item.s)) ELSE Tail(item.s)

IsWordItem(item) ==
    item.k = "lit" /\ ~IsSpace(item.s[1]) /\ ~IsPunct(item.s[1]) /\ item.s[1] \in AsciiChars

\* The literal characters of a text unit made of literal items.
RECURSIVE Chars(_)
Chars(items) == IF items = <<>> THEN <<>> ELSE Head(items).s \o Chars(Tail(items))

\* A text unit that is one word followed by n markers and nothing else.
IsWordThenMarkers(x, n) ==
    /\ Len(x) > n
    /\ \A m \in 1..Len(x) : IF m <= Len(x) - n THEN IsWordItem(x[m]) ELSE IsMarkerItem(x[m])

\* A text unit that is one word followed by a run of two or more markers.
IsWordThenRun(x) == \E n \in 2..Len(x) : IsWordThenMarkers(x, n)

WordOf(x) == Chars(SelectSeq(x, IsWordItem))

MarkersOf(x) == SelectSeq(x, IsMarkerItem)

OpenLemma == SpanBegin \o LemmaName \o AttrOpen

OpenMorph == SpanBegin \o MorphName \o AttrOpen

LemmaAttr == LemmaName \o AttrOpen

MorphAttr == MorphName \o AttrOpen

\* The opening annotation tags of s: where each starts, and its text.
OpenTags(s) ==
    {p \in 0..(Len(s) - 1) : StartsWithAt(s, p, OpenLemma) \/ StartsWithAt(s, p, OpenMorph)}

TagText(s, p) == SubSeq(s, p + 1, FindChar(s, ">", p) + 1)

\* s without its raw markers.
RECURSIVE StripMarkers(_)
StripMarkers(s) ==
    LET Match(p) == MarkerEnd(s, p) # -1
        p == FirstFrom(s, 0, Match)
    IN  IF p = -1 THEN s ELSE Left(s, p) \o StripMarkers(Mid(s, MarkerEnd(s, p)))

\* Where an annotation tag (opening or closing) or a raw marker at p ends, or -1.
AnnotationEnd(s, p) ==
    IF MarkerEnd(s, p) # -1 THEN MarkerEnd(s, p)
    ELSE IF StartsWithAt(s, p, SpanEnd) THEN p + Len(SpanEnd)
    ELSE IF StartsWithAt(s, p, OpenLemma) \/ StartsWithAt(s, p, OpenMorph)
    THEN FindChar(s, ">", p) + 1
    ELSE -1

\* s without its annotation tags and raw markers.
RECURSIVE StripAnnotations(_)
StripAnnotations(s) ==
    LET Match(p) == AnnotationEnd(s, p) # -1
        p == FirstFrom(s, 0, Match)
    IN  IF p = -1 THEN s ELSE Left(s, p) \o StripAnnotations(Mid(s, AnnotationEnd(s, p)))

\* s without markup: everything between a < and the next >.
RECURSIVE StripTags(_)
StripTags(s) ==
    LET p == FindChar(s, "<", 0)
        q == IF p = -1 THEN -1 ELSE FindChar(s, ">", p)
    IN  IF q = -1 THEN s ELSE Left(s, p) \o StripTags(Mid(s, q + 1))

AmAnfangOut ==
    <<"<", "s", "p", "a", "n", " ", "l", "e", "m", "m", "a", "=", "\"", "H", "0", "7", "2",
      "2", "5", "\"", ">", "A", "m", " ", "A", "n", "f", "a", "n", "g", "<", "/", "s", "p",
      "a", "n", ">", " ", "<", "s", "p", "a", "n", " ", "m", "o", "r", "p", "h", "=", "\"",
      "H", "8", "8", "0", "4", "\"", " ", "l", "e", "m", "m", "a", "=", "\"", "H", "0", "1",
      "2", "5", "4", "\"", ">", "s", "c", "h", "u", "f", "<", "/", "s", "p", "a", "n", ">">>

AmAnfangClaimed ==
    <<"<", "s", "p", "a", "n", " ", "l", "e", "m", "m", "a", "=", "\"", "H", "0", "7", "2",
      "2", "5", "\"", ">", "A", "m", " ", "A", "n", "f", "a", "n", "g", "<", "/", "s", "p",
      "a", "n", ">", " ", "<", "s", "p", "a", "n", " ", "l", "e", "m", "m", "a", "=", "\"",
      "H", "0", "1", "2", "5", "4", "\"", " ", "m", "o", "r", "p", "h", "=", "\"", "T", "8",
      "8", "0", "4", "\"", ">", "s", "c", "h", "u", "f", "<", "/", "s", "p", "a", "n", ">">>

Positions(s, x) == {p \in 0..(Len(s) - Len(x)) : StartsWithAt(s, p, x)}

Max(S) == CHOOSE m \in S : \A n \in S : n <= m

\* The attribute a marker stands for, and a word wrapped in a span.
Attr(item) ==
    (IF IsMorphItem(item) THEN MorphAttr ELSE LemmaAttr) \o ItemValue(item) \o <<"\"">>

Span(attrs, word) == SpanBegin \o attrs \o <<">">> \o word \o SpanEnd

KindOf(item) == IF IsMorphItem(item) THEN MorphAttr ELSE LemmaAttr

OtherKind(a) == IF a = MorphAttr THEN LemmaAttr ELSE MorphAttr

AllValued(x) == \A m \in 1..Len(x) : IsMarkerItem(x[m]) => ItemValue(x[m]) # <<>>

BothKinds(x) ==
    \E m, n \in 1..Len(x) :
        IsMarkerItem(x[m]) /\ IsMarkerItem(x[n]) /\ IsMorphItem(x[m]) /\ ~IsMorphItem(x[n])

\* A word, an origin-number marker, a morphology marker.
IsLemmaThenMorph(x) ==
    /\ IsWordThenMarkers(x, 2)
    /\ AllValued(x)
    /\ ~IsMorphItem(x[Len(x) - 1])
    /\ IsMorphItem(x[Len(x)])

OriginAndMorphologyEnabled == PassRuns /\ module.strongNumbers /\ module.morphTags

(***************************************************************************)
(* C1.  A word followed by an origin-number marker and then a morphology   *)
(* marker is wrapped in one span.  Its lemma attribute is the origin       *)
(* letter plus the number, its morph attribute is the payload of the       *)
(* morphology marker as written (H8804 for <WTH8804>), and the morph       *)
(* attribute comes first.  The sample Am Anfang<WH07225> schuf<WH01254>    *)
(* <WTH8804> gives lemma="H07225" around Am Anfang and                     *)
(* morph="H8804" lemma="H01254" around schuf.                              *)
(***************************************************************************)
LemmaThenMorphSpan ==
    (FirstRunDone /\ OriginAndMorphologyEnabled) =>
        /\ IsLemmaThenMorph(src) =>
               buf = Span(Attr(src[Len(src)]) \o <<" ">> \o Attr(src[Len(src) - 1]), WordOf(src))
        /\ src = AmAnfang => buf = AmAnfangOut

\* C1 as the specification words it: lemma first, and morph="T8804" in the sample.
LemmaFirstSpan ==
    (FirstRunDone /\ OriginAndMorphologyEnabled) =>
        /\ IsLemmaThenMorph(src) =>
               buf = Span(Attr(src[Len(src) - 1]) \o <<" ">> \o Attr(src[Len(src)]), WordOf(src))
        /\ src = AmAnfang => buf = AmAnfangClaimed

\* C1: the sample has been through both passes.
AmAnfangAnnotated ==
    FirstRunDone /\ OriginAndMorphologyEnabled /\ src = AmAnfang /\ buf = AmAnfangOut

(***************************************************************************)
(* C2.  In every annotation span the post-processing pass produces, each   *)
(* attribute kind (lemma, morph) occurs at most once, whatever the length  *)
(* and mix of the marker run.                                              *)
(***************************************************************************)
OneAttributePerKind ==
    FirstRunDone =>
        \A p \in OpenTags(buf) :
            /\ Count(TagText(buf, p), LemmaAttr) <= 1
            /\ Count(TagText(buf, p), MorphAttr) <= 1

(***************************************************************************)
(* C3.  A marker with an empty value that follows a word is consumed: the  *)
(* output holds the word alone, with no raw marker and no span.            *)
(***************************************************************************)
IsWordThenEmptyMarker(x) == IsWordThenMarkers(x, 1) /\ Len(x[Len(x)].s) = 2

EmptyMarkerConsumed ==
    (FirstRunDone /\ PassRuns /\ IsWordThenEmptyMarker(src)) => buf = WordOf(src)

(***************************************************************************)
(* C4.  When the marker run after a word holds both kinds, the attribute   *)
(* of the kind seen first is the last one of the tag: every attribute      *)
(* created later is put right after the tag name, in front of those        *)
(* already there.  The tag therefore begins with the attribute of the      *)
(* run's last marker, and a run of two markers of different kinds gives    *)
(* the second marker's attribute followed by the first marker's.           *)
(***************************************************************************)
IsMixedRun(x) == IsWordThenRun(x) /\ AllValued(x) /\ BothKinds(x)

ReverseDiscoveryOrder ==
    (FirstRunDone /\ PassRuns /\ IsMixedRun(src)) =>
        LET tag   == TagText(buf, 0)
            ms    == MarkersOf(src)
            first == KindOf(ms[1])
            last  == KindOf(ms[Len(ms)])
        IN  /\ StartsWithAt(tag, Len(SpanBegin), last)
            /\ Max(Positions(tag, first)) > Max(Positions(tag, OtherKind(first)))
            /\ Len(ms) = 2 => buf = Span(Attr(ms[2]) \o <<" ">> \o Attr(ms[1]), WordOf(src))

\* C4 as the specification words it: lemma precedes morph exactly when a
\* lemma marker was seen before the first morph marker.
DiscoveryOrder ==
    (FirstRunDone /\ PassRuns /\ IsMixedRun(src)) =>
        LET tag == TagText(buf, 0) IN
        (Min(Positions(tag, LemmaAttr)) < Min(Positions(tag, MorphAttr)))
            <=> ~IsMorphItem(MarkersOf(src)[1])

\* C4: a morphology marker came first and the lemma attribute stands in front.
MorphSeenFirst ==
    /\ FirstRunDone
    /\ src = <<Lit("a"), WT2, WH1>>
    /\ buf = Span(Attr(WH1) \o <<" ">> \o Attr(WT2), <<"a">>)

(***************************************************************************)
(* C5.  A second run of the post-processing pass on its own output         *)
(* returns the buffer as the first run left it when the first run left no  *)
(* raw marker in it.  When raw markers are left (a punctuation-led marker  *)
(* after an annotated word) the second run may add spans and remove those  *)
(* markers, and it changes nothing else: without annotation tags and raw   *)
(* markers the two buffers are the same text.                              *)
(***************************************************************************)
SecondRunKeepsText ==
    SecondRunDone =>
        /\ ~HasRawMarker(out1) => buf = out1
        /\ StripAnnotations(buf) = StripAnnotations(out1)

\* C5 as the specification words it: the second run is a no-op for every buffer.
SecondRunNoOp == SecondRunDone => buf = out1

\* C5: the second run rewrote a buffer in which the first run left a raw marker.
SecondRunRewrote == SecondRunDone /\ HasRawMarker(out1) /\ buf # out1

(***************************************************************************)
(* C6.  An entry with no word text before its first raw marker, only       *)
(* whitespace, punctuation and markup put there by the streaming pass, is  *)
(* appended to the result as it is: no span is opened or closed for it     *)
(* and none of its markers is removed.                                     *)
(***************************************************************************)
NoWordBeforeMarker(entry) ==
    LET p     == FirstFrom(entry, 0, LAMBDA q : MarkerEnd(entry, q) # -1)
        front == StripTags(Left(entry, p))
    IN  /\ p # -1
        /\ \A n \in 1..Len(front) : IsSpace(front[n]) \/ IsPunct(front[n])

NoWordVerbatim ==
    (pc = "append" /\ run = 1 /\ NoWordBeforeMarker(list[idx])) => e = list[idx]

(***************************************************************************)
(* C7.  The post-processing pass never corrupts literal text: its output   *)
(* without the span tags it inserted and the raw markers still present is  *)
(* the buffer of the streaming pass without its raw markers.               *)
(***************************************************************************)
TextPreserved == FirstRunDone => StripAnnotations(buf) = StripMarkers(filtered)

(***************************************************************************)
(* C8.  With per-entry attribute processing enabled, the post-processing   *)
(* pass leaves the buffer as the streaming pass left it when the registry  *)
(* resolves the module and the module declares none of lemmas, morphology  *)
(* tags and original-language numbers.  It runs when the module declares   *)
(* at least one of them and also when the registry lookup does not         *)
(* resolve the module name: a word followed by a marker with a value is    *)
(* rewritten in exactly these two cases.                                   *)
(***************************************************************************)
DeclaresOne == module.lemmas \/ module.morphTags \/ module.strongNumbers

IsWordThenValuedMarker(x) == IsWordThenMarkers(x, 1) /\ AllValued(x)

NoSpansWhenDisabled ==
    (Done /\ ~module.processEntryAttributes) =>
        /\ buf = filtered
        /\ ~Contains(buf, OpenLemma)
        /\ ~Contains(buf, OpenMorph)

\* C9: processing is disabled, the module declares a capability and the
\* text holds a word followed by a marker.
DisabledWithMarkers ==
    /\ Done
    /\ ~module.processEntryAttributes
    /\ DeclaresOne
    /\ IsWordThenValuedMarker(src)
    /\ HasRawMarker(buf)

(***************************************************************************)
(* C10.  When the output of the streaming pass holds no raw word-origin    *)
(* marker, the post-processing pass leaves the buffer identical to it,     *)
(* whatever the capability flags.                                          *)
(***************************************************************************)
NoMarkerNoChange == (FirstRunDone /\ ~HasRawMarker(filtered)) => buf = filtered

\* C10: the pass looked for a marker in a buffer that holds a byte which is
\* not UTF-8, found none and returned.
NoMarkerLatin1 ==
    /\ FirstRunDone
    /\ PassRuns
    /\ src = Latin1Only
    /\ t # <<>>
    /\ buf = filtered

(***************************************************************************)
(* Vocabulary of the properties of the streaming pass.                     *)
(***************************************************************************)
\* The pass is about to dispatch the item src[cur].
AtItem == pc = "filter" /\ cur <= Len(src)

AtToken == AtItem /\ src[cur].k = "tok"

\* The items dispatched so far.
Dispatched == SubSeq(src, 1, cur - 1)

\* The pass has just dispatched src[cur - 1] and goes on.
PastItem == pc = "filter" /\ cur > 1

ContextUnchanged == UNCHANGED <<swordFootnote, hasFootnotePreTag, suspendTextPassThru>>

BeginsWith(token, name) == Len(token) >= 2 /\ token[1] = name[1] /\ token[2] = name[2]

InTable(token) == \E p \in TokenSubstitutes : p[1] = token

(***************************************************************************)
(* C11.  Dispatching a token that has an entry in the table appends the    *)
(* literal of that entry and nothing else, and leaves the footnote         *)
(* counter, the footnote-preamble flag and the pass-through flag as they   *)
(* are.                                                                    *)
(***************************************************************************)
SubstitutionOnly ==
    [][(AtToken /\ InTable(src[cur].s)) =>
           /\ \E p \in TokenSubstitutes : p[1] = src[cur].s /\ buf' = buf \o p[2]
           /\ ContextUnchanged
           /\ pc' = "filter"]_vars

\* C11: <FI> has been dispatched while pass-through was suspended.
SubstitutedWhileSuspended ==
    /\ PastItem
    /\ src[cur - 1] = FI
    /\ suspendTextPassThru
    /\ Len(buf) > Len(SpanItalic)
    /\ SubSeq(buf, Len(buf) - Len(SpanItalic) + 1, Len(buf)) = SpanItalic

(***************************************************************************)
(* C12.  For <RB>text<RF><Rf> on a fresh Render Context the output is, in  *)
(* this order, one footnote-preamble opening span, the text, the closing   *)
(* of that span and one footnote-reference span numbered 0.  Pass-through  *)
(* is suspended from RF to Rf; after Rf the pass-through flag and the      *)
(* preamble flag are both false.                                           *)
(***************************************************************************)
\* GBFHTML::processText has returned.
StreamReturned == pc = "guard" /\ run = 1

PreambleFootnoteOut ==
    <<"<", "s", "p", "a", "n", " ", "c", "l", "a", "s", "s", "=", "\"", "f", "o", "o", "t",
      "n", "o", "t", "e", "p", "r", "e", "\"", ">", "t", "e", "x", "t", "<", "/", "s", "p",
      "a", "n", ">", " ", "<", "s", "p", "a", "n", " ", "c", "l", "a", "s", "s", "=", "\"",
      "f", "o", "o", "t", "n", "o", "t", "e", "\"", " ", "n", "o", "t", "e", "=", "\"", "M",
      "/", "K", "/", "0", "\"", ">", "*", "<", "/", "s", "p", "a", "n", ">", " ">>


PreambleThenReference ==
    src = PreambleFootnote =>
        /\ (pc = "filter" /\ cur = Len(src)) => (suspendTextPassThru /\ ~hasFootnotePreTag)
        /\ StreamReturned =>
               /\ buf = PreambleFootnoteOut
               /\ ~suspendTextPassThru
               /\ ~hasFootnotePreTag

\* C12: the pass has returned from <RB>text<RF><Rf>.
PreambleFootnoteReturned == StreamReturned /\ src = PreambleFootnote /\ buf # <<>>

(***************************************************************************)
(* C13.  Pass-through is suspended exactly when a token beginning with RF  *)
(* has been dispatched and no token beginning with Rf has been dispatched  *)
(* since.  While it is suspended literal text is not appended, but tokens  *)
(* are still dispatched and what they produce (a substitution, a raw       *)
(* word-origin marker, a footnote reference) is appended; when it is not   *)
(* suspended literal text is appended.                                     *)
(***************************************************************************)
IsRF(item) == item.k = "tok" /\ BeginsWith(item.s, <<"R", "F">>)

IsRf(item) == item.k = "tok" /\ BeginsWith(item.s, <<"R", "f">>)

InsideFootnote(items) ==
    \E m \in 1..Len(items) :
        /\ IsRF(items[m])
        /\ \A n \in (m + 1)..Len(items) : ~IsRf(items[n])

Extends(longer, shorter) ==
    Len(longer) > Len(shorter) /\ SubSeq(longer, 1, Len(shorter)) = shorter

SuspendedInsideFootnote ==
    /\ [](suspendTextPassThru <=> InsideFootnote(Dispatched))
    /\ [][(AtItem /\ src[cur].k = "lit") =>
              buf' = IF suspendTextPassThru THEN buf ELSE buf \o src[cur].s]_vars
    /\ [][(AtToken /\ suspendTextPassThru /\ src[cur] \in {FI, WH1, RF}) =>
              Extends(buf', buf)]_vars

\* C13: literal text has been dropped inside a footnote and appended after it.
TextDroppedThenAppended ==
    /\ StreamReturned
    /\ src = FootnoteThenText
    /\ buf = FootnoteBegin \o <<"M", "/", "K", "/", "0">> \o FootnoteEnd
               \o <<"m", "o", "r", "e">>

(***************************************************************************)
(* C14.  Within one render call the k-th dispatched RF token (k = 0, 1,    *)
(* 2, ...) appends the footnote reference numbered k, whatever tokens are  *)
(* interleaved and whether or not pass-through is already suspended; the   *)
(* counter is the number of RF tokens dispatched and no other item         *)
(* changes it.                                                             *)
(***************************************************************************)
FootnotesSoFar == Cardinality({m \in 1..(cur - 1) : IsRF(src[m])})

Decimal ==
    <<<<"0">>, <<"1">>, <<"2">>, <<"3">>, <<"4">>, <<"5">>, <<"6">>, <<"7">>, <<"8">>, <<"9">>,
      <<"1", "0">>, <<"1", "1">>>>

Reference(k) == FootnoteBegin \o <<"M", "/", "K", "/">> \o Decimal[k + 1] \o FootnoteEnd

FootnotesNumberedInOrder ==
    /\ [](swordFootnote = FootnotesSoFar)
    /\ [][(AtItem /\ IsRF(src[cur])) =>
              /\ buf' \in {buf \o Reference(FootnotesSoFar),
                           buf \o SpanEnd \o Reference(FootnotesSoFar)}
              /\ swordFootnote' = swordFootnote + 1]_vars
    /\ [][(AtItem /\ ~IsRF(src[cur])) => swordFootnote' = swordFootnote]_vars

\* C14: eleven footnotes have been numbered, the last one 10.
EleventhFootnote ==
    /\ StreamReturned
    /\ src = ElevenFootnotes
    /\ swordFootnote = 11
    /\ SubSeq(buf, Len(buf) - Len(Reference(10)) + 1, Len(buf)) = Reference(10)

(***************************************************************************)
(* C15.  For every four-character CA token whose two digits are            *)
(* hexadecimal (0-9, a-f, A-F in any mix of case) the handler appends      *)
(* exactly one byte, of value 16 * value(first digit) + value(second       *)
(* digit); nothing else is appended and the Render Context is unchanged.   *)
(* <CA41> appends 0x41.                                                    *)
(***************************************************************************)
UpperDigits == <<"0", "1", "2", "3", "4", "5", "6", "7", "8", "9", "A", "B", "C", "D", "E", "F">>

LowerDigits == <<"0", "1", "2", "3", "4", "5", "6", "7", "8", "9", "a", "b", "c", "d", "e", "f">>

IsHexDigit(c) == \E v \in 1..16 : c = UpperDigits[v] \/ c = LowerDigits[v]

HexValue(c) == (CHOOSE v \in 1..16 : c = UpperDigits[v] \/ c = LowerDigits[v]) - 1

IsCA(item) == item.k = "tok" /\ BeginsWith(item.s, <<"C", "A">>)

IsHexCA(item) ==
    IsCA(item) /\ Len(item.s) = 4 /\ IsHexDigit(item.s[3]) /\ IsHexDigit(item.s[4])

HexPairAppendsOneByte ==
    [][(AtItem /\ IsHexCA(src[cur])) =>
           /\ buf' = buf \o <<ByteChar(16 * HexValue(src[cur].s[3]) + HexValue(src[cur].s[4]))>>
           /\ ContextUnchanged
           /\ pc' = "filter"]_vars

\* C15: <CA41> has appended the byte 0x41, the letter A.
CA41Appended == PastItem /\ src = <<CA41>> /\ buf = <<"A">>

(***************************************************************************)
(* C16.  If either digit of a CA token is not a hexadecimal digit (as in   *)
(* <CAZZ>, or in a token too short to hold two digits), dispatching it     *)
(* ends in the abort state and appends nothing.  A render call does not    *)
(* return on this path and on one more: a CA token whose length is not 4   *)
(* aborts in a build that checks BT_ASSERT, also when its two digits are   *)
(* hexadecimal (<CA41x>).                                                  *)
(***************************************************************************)
HasBadDigit(item) ==
    \/ Len(item.s) < 4
    \/ ~IsHexDigit(item.s[3])
    \/ ~IsHexDigit(item.s[4])

Aborted == pc = "abort"

AbortOnBadDigitOrLength ==
    /\ [][(AtItem /\ IsCA(src[cur]) /\ HasBadDigit(src[cur])) =>
              (Aborted' /\ buf' = buf /\ ContextUnchanged)]_vars
    /\ [](Aborted =>
              /\ IsCA(src[cur - 1])
              /\ HasBadDigit(src[cur - 1]) \/ Len(src[cur - 1].s) # 4)

\* C16 as the specification words it: a bad digit is the only way to abort.
AbortOnlyOnBadDigit == Aborted => (IsCA(src[cur - 1]) /\ HasBadDigit(src[cur - 1]))

\* C16: <CA41x> has aborted though its two digits are hexadecimal.
LongTokenAborted ==
    /\ Aborted
    /\ src = <<Tok(<<"C", "A", "4", "1", "x">>)>>
    /\ buf = <<>>

(***************************************************************************)
(* C17.  Every token beginning with WG, WH or WT is appended as it is,     *)
(* between < and >, whatever its payload (the empty one included) and      *)
(* also while pass-through is suspended; the Render Context is unchanged.  *)
(***************************************************************************)
IsWordOrigin(item) ==
    /\ item.k = "tok"
    /\ \E k \in {"G", "H", "T"} : BeginsWith(item.s, <<"W", k>>)

WordOriginVerbatim ==
    [][(AtItem /\ IsWordOrigin(src[cur])) =>
           /\ buf' = buf \o <<"<">> \o src[cur].s \o <<">">>
           /\ ContextUnchanged
           /\ pc' = "filter"]_vars

\* C17: <WT>, with no payload, has been appended inside a suspended footnote.
EmptyMarkerWhileSuspended ==
    /\ PastItem
    /\ src = <<RF, WT>>
    /\ cur = 3
    /\ suspendTextPassThru
    /\ SubSeq(buf, Len(buf) - 3, Len(buf)) = <<"<", "W", "T", ">">>

(***************************************************************************)
(* C18.  After construction the table has no entry for Rf.  Dispatching    *)
(* Rf appends nothing and changes nothing but the pass-through flag,       *)
(* which becomes false, also when it was false already; the footnote       *)
(* counter and the preamble flag are unchanged.                            *)
(***************************************************************************)
RfOnlyResumes ==
    /\ [](\A p \in TokenSubstitutes : p[1] # <<"R", "f">>)
    /\ [][(AtItem /\ IsRf(src[cur])) =>
              /\ buf' = buf
              /\ ~suspendTextPassThru'
              /\ UNCHANGED <<swordFootnote, hasFootnotePreTag>>
              /\ pc' = "filter"]_vars

\* C18: Rf has been dispatched with the preamble flag set and pass-through
\* not suspended.
RfWithPreamblePending ==
    /\ PastItem
    /\ src = <<RB, Rf>>
    /\ cur = 3
    /\ hasFootnotePreTag
    /\ ~suspendTextPassThru
    /\ buf = SpanFootnotePre

(***************************************************************************)
(* C19.  A token that has no substitution and whose first two characters,  *)
(* compared case-sensitively, are none of WG, WH, WT, RB, RF, Rf, FN, CA   *)
(* is delegated to the base conversion: the handler appends nothing,       *)
(* changes no field of the Render Context and returns what the base        *)
(* handler returns.  rf, rb and wh are delegated.                          *)
(***************************************************************************)
HandledNames ==
    {<<"W", "G">>, <<"W", "H">>, <<"W", "T">>, <<"R", "B">>, <<"R", "F">>, <<"R", "f">>,
     <<"F", "N">>, <<"C", "A">>}

IsDelegated(item) ==
    /\ item.k = "tok"
    /\ ~InTable(item.s)
    /\ \A name \in HandledNames : ~BeginsWith(item.s, name)

OtherTokensDelegated ==
    /\ [](\A m \in 1..Len(src) : \A asserts \in BOOLEAN :
              IsDelegated(src[m]) =>
                  handleToken(buf, src[m].s, UserData, asserts)
                      = BaseHandleToken(buf, src[m].s, UserData))
    /\ [][(AtItem /\ IsDelegated(src[cur])) =>
              (buf' = buf /\ ContextUnchanged /\ pc' = "filter")]_vars

\* C19: rf has been dispatched inside a footnote and pass-through is still
\* suspended.
LowerRfInsideFootnote ==
    /\ PastItem
    /\ src = <<RF, LowerRf>>
    /\ cur = 3
    /\ suspendTextPassThru
    /\ buf = Reference(0)

(***************************************************************************)
(* C20.  Two render calls that use independent Render Contexts and whose   *)
(* token dispatches interleave in any order on the one filter instance     *)
(* each end with the output and the context they end with when run alone.  *)
(* A dispatch of one call changes nothing of the other call, and no        *)
(* dispatch changes the table built at construction.                       *)
(***************************************************************************)
RECURSIVE AloneFrom(_, _, _)
AloneFrom(items, b, ud) ==
    IF items = <<>> THEN [buf |-> b, ud |-> ud]
    ELSE LET item == Head(items)
             o    == IF item.k = "tok"
                     THEN handleToken(b, item.s, ud, TRUE)
                     ELSE PassThru(b, item.s, ud)
         IN  AloneFrom(Tail(items), o.buf, o.ud)

\* The buffer and the context a call on items ends with when it runs alone.
Alone(items) == AloneFrom(items, <<>>, FreshUserData)

FirstCall == <<cur, buf, swordFootnote, hasFootnotePreTag, suspendTextPassThru, pc>>

AttrValues(tag) ==
    {SubSeq(tag, p + Len(name) + 1, FindChar(tag, "\"", p + Len(name))) :
        <<p, name>> \in {q \in (0..Len(tag)) \X {LemmaAttr, MorphAttr} :
                            StartsWithAt(tag, q[1], q[2])}}

\* A list joined with | has an empty component.
HasEmptyComponent(v) ==
    \/ v = <<>>
    \/ v[1] = "|"
    \/ v[Len(v)] = "|"
    \/ Contains(v, <<"|", "|">>)

IsWordThenValuedFirst(x) == IsWordThenRun(x) /\ ItemValue(MarkersOf(x)[1]) # <<>>

LaterMarkersRemovedAndMerged ==
    (FirstRunDone /\ PassRuns /\ IsWordThenValuedFirst(src)) =>
        /\ ~HasRawMarker(buf)
        /\ \A m \in 1..Len(src) :
               (IsMarkerItem(src[m]) /\ ItemValue(src[m]) # <<>>) =>
                   \E v \in AttrValues(TagText(buf, 0)) : Contains(v, ItemValue(src[m]))

(***************************************************************************)
(* C23.  Segmentation partitions the buffer.  The entries of list, joined  *)
(* in order, are the output of the streaming pass exactly.  Every entry    *)
(* but a possible last one ends with a run of markers (each optionally     *)
(* led by one of . , ; : and followed by optional whitespace) and holds    *)
(* no raw marker before that run.  A last entry without a run is there     *)
(* exactly when text remains after the last run, and it holds no raw       *)
(* marker.                                                                 *)
(***************************************************************************)
RECURSIVE Concat(_)
Concat(entries) == IF entries = <<>> THEN <<>> ELSE Head(entries) \o Concat(Tail(entries))

Segmented == pc = "entry" /\ idx = 1 /\ run = 1

\* The entry is text without a raw marker followed by one run of markers.
EndsWithMarkerRun(entry) ==
    \E p \in 0..(Len(entry) - 1) :
        /\ SegRunEnd(entry, p) = Len(entry)
        /\ \A q \in 0..(p - 1) : MarkerEnd(entry, q) = -1

EntriesAreRuns ==
    \A n \in 1..Len(list) :
        \/ EndsWithMarkerRun(list[n])
        \/ n = Len(list) /\ list[n] # <<>> /\ ~HasRawMarker(list[n])

SegmentationPartitions ==
    Segmented => (Concat(list) = filtered /\ EntriesAreRuns)

(***************************************************************************)
(* C24.  A word followed by a run of two or more markers of one kind, all  *)
(* with a value, is wrapped in a span with one attribute of that kind.     *)
(* Its value is the values of the markers joined with |, in the order of   *)
(* the markers in the text.                                                *)
(***************************************************************************)
RECURSIVE JoinValues(_)
JoinValues(items) ==
    IF Len(items) = 1 THEN ItemValue(items[1])
    ELSE ItemValue(items[1]) \o <<"|">> \o JoinValues(Tail(items))

IsOneKindRun(x) == IsWordThenRun(x) /\ AllValued(x) /\ ~BothKinds(x)

OneKindJoinedInOrder ==
    (FirstRunDone /\ PassRuns /\ IsOneKindRun(src)) =>
        LET ms == MarkersOf(src) IN
        buf = Span(KindOf(ms[1]) \o JoinValues(ms) \o <<"\"">>, WordOf(src))

\* C24: three origin-number markers with three values after one word.
LemmaRunJoined ==
    /\ FirstRunDone
    /\ src = LemmaRun
    /\ buf = Span(LemmaAttr \o <<"H", "1", "|", "H", "2", "|", "G", "3", "\"">>, <<"a">>)

(***************************************************************************)
(* C25.  For the first marker of an entry that is rewritten, the opening   *)
(* tag goes in at the first character of the entry that is neither         *)
(* whitespace nor punctuation.  The span holds all the text of the entry   *)
(* from that character up to the first marker, every word of it and not    *)
(* the last one only, and the whitespace and punctuation the entry begins  *)
(* with stay in front of the span.                                         *)
(***************************************************************************)
\* How many characters of whitespace and punctuation the entry begins with.
LeadLength(entry) ==
    Min({q \in 0..Len(entry) :
            q = Len(entry) \/ ~(IsSpace(At(entry, q)) \/ IsPunct(At(entry, q)))})

\* The marker of entry at p as an item of a text unit.
MarkerItemAt(entry, p) == Tok(SubSeq(entry, p + 2, FindChar(entry, ">", p)))

FirstMarkerStep == pc = "marker" /\ ~insertedTag /\ insertedTag'

SpanFromFirstWordChar ==
    [][FirstMarkerStep =>
          LET k    == LeadLength(e)
              item == MarkerItemAt(e, pos)
          IN  e' = Left(e, k)
                     \o SpanBegin \o Attr(item) \o <<">">>
                     \o SubSeq(e, k + 1, pos)
                     \o SpanEnd
                     \o Mid(e, FindChar(e, ">", pos) + 1)]_vars

\* C25: two words behind punctuation and a blank are in one span.
TwoWordsInOneSpan ==
    /\ FirstRunDone
    /\ src = LeadingPunct
    /\ buf = <<".", " ">> \o Span(Attr(WH1), <<"a", " ", "a">>)

(***************************************************************************)
(* C26.  After the pass an entry that has word text before its run of      *)
(* markers, all of them with a value, holds no raw marker: the first       *)
(* marker has become the closing tag, and every later one was removed and  *)
(* its value is in the opening tag.                                        *)
(***************************************************************************)
MarkerPositions(entry) == {q \in 0..(Len(entry) - 1) : MarkerEnd(entry, q) # -1}

HasWordBeforeMarker(entry) ==
    /\ MarkerPositions(entry) # {}
    /\ LET front == StripTags(Left(entry, Min(MarkerPositions(entry))))
       IN  \E n \in 1..Len(front) : ~IsSpace(front[n]) /\ ~IsPunct(front[n])

MarkersAllValued(entry) ==
    \A q \in MarkerPositions(entry) : ItemValue(MarkerItemAt(entry, q)) # <<>>

EntryRewritten == pc = "append"

NoRawMarkerLeft ==
    (EntryRewritten /\ HasWordBeforeMarker(list[idx]) /\ MarkersAllValued(list[idx])) =>
        /\ ~HasRawMarker(e)
        /\ Count(e, SpanEnd) = Count(list[idx], SpanEnd) + 1
        /\ \A q \in MarkerPositions(list[idx]) :
               \E v \in AttrValues(TagText(e, LeadLength(list[idx]))) :
                   Contains(v, ItemValue(MarkerItemAt(list[idx], q)))

\* C26: an entry with three markers of two kinds has none left.
ThreeMarkersGone ==
    /\ EntryRewritten
    /\ run = 1
    /\ list[idx] = <<"a", "<", "W", "H", "1", ">", "<", "W", "T", "2", ">", "<", "W", "H", "1", ">">>
    /\ ~HasRawMarker(e)
    /\ Count(e, SpanEnd) = 1

(***************************************************************************)
(* C27.  Every call of processText on a text without an invalid            *)
(* hexadecimal escape ends and returns 1, on each path: attribute          *)
(* processing disabled, no capability, no marker found, entries            *)
(* rewritten.  Each segmentation step leaves less text to segment, and     *)
(* each turn of the marker loop of an entry leaves fewer raw markers at    *)
(* or after the position it scans from, or leaves the loop.                *)
(***************************************************************************)
NoInvalidEscape(x) == \A m \in 1..Len(x) : IsCA(x[m]) => IsHexCA(x[m])

MarkersFrom(entry, p) == Cardinality({q \in MarkerPositions(entry) : q >= p})

ReturnedOne == returned = <<1>>

TerminatesWithSuccess ==
    /\ NoInvalidEscape(src) => <>(FirstRunDone /\ ReturnedOne)
    /\ NoInvalidEscape(src) => <>(SecondRunDone /\ ReturnedOne)
    /\ [](Done => ReturnedOne)
    /\ [][pc = "segment" => Len(t') < Len(t)]_vars
    /\ [][(pc = "marker" /\ pc' = "marker") =>
              MarkersFrom(e', pos') < MarkersFrom(e, pos)]_vars

\* C27: the pass has returned 1 after it left the marker loop at an
\* empty-valued marker with markers still in the entry.
ReturnedAfterBreak ==
    /\ FirstRunDone
    /\ ReturnedOne
    /\ src = <<Lit("a"), WT2, WT>>
    /\ HasRawMarker(buf)

(***************************************************************************)
(* C28.  At every point of a render call the number of footnote-preamble   *)
(* spans opened for RB tokens, less the number of closing tags emitted     *)
(* for them, is 1 when hasFootnotePreTag is set and 0 when it is not:      *)
(* the next RF closes every preamble span opened before it, also after     *)
(* several RB tokens, and RF emits a closing tag only when one is open.    *)
(***************************************************************************)
PreambleOpened == Count(buf, SpanFootnotePre)

\* RF puts the closing tag of the preamble right in front of its reference.
PreambleClosed == Count(buf, SpanEnd \o FootnoteBegin)

PreambleSpansBalanced ==
    PreambleOpened - PreambleClosed = IF hasFootnotePreTag THEN 1 ELSE 0

(***************************************************************************)
(* C29.  For every entry the pass inserts either no tag at all (the entry  *)
(* is left as it is, or its first marker has an empty value) or exactly    *)
(* one opening annotation tag and exactly one closing </span>, the         *)
(* opening tag at or before the place of the closing tag.  The annotation  *)
(* spans are therefore balanced and never inverted, and two of them never  *)
(* overlap.                                                                *)
(***************************************************************************)
Opens(s) == Count(s, OpenLemma) + Count(s, OpenMorph)

\* e is entry with an opening tag put in at k and the marker at m made </span>.
IsSpanAround(entry, k, m, rewritten) ==
    LET tagEnd == FindChar(rewritten, ">", k) + 1 IN
    /\ k <= m
    /\ k \in OpenTags(rewritten)
    /\ Left(rewritten, k) = Left(entry, k)
    /\ SubSeq(rewritten, tagEnd + 1, tagEnd + (m - k)) = SubSeq(entry, k + 1, m)
    /\ StartsWithAt(rewritten, tagEnd + (m - k), SpanEnd)

\* Reading s from the left, how many annotation spans are open after n characters.
OpenSpansAt(s, n) == Opens(Left(s, n)) - Count(Left(s, n), SpanEnd)

OneBalancedSpanPerEntry ==
    /\ EntryRewritten =>
           \/ e = list[idx]
           \/ /\ Opens(e) = Opens(list[idx]) + 1
              /\ Count(e, SpanEnd) = Count(list[idx], SpanEnd) + 1
              /\ \E k \in 0..Len(list[idx]) :
                     IsSpanAround(list[idx], k, Min(MarkerPositions(list[idx])), e)
    /\ (FirstRunDone /\ PassRuns) =>
           /\ \A n \in 0..Len(buf) : OpenSpansAt(buf, n) \in {0, 1}
           /\ OpenSpansAt(buf, Len(buf)) = 0

\* C29: two entries, one span in each, the second span after the first.
TwoSpansSideBySide ==
    /\ FirstRunDone
    /\ src = <<Lit("a"), WH1, Lit("a"), WT2>>
    /\ buf = Span(Attr(WH1), <<"a">>) \o Span(Attr(WT2), <<"a">>)

(***************************************************************************)
(* C30.  When the output of the streaming pass is well-nested markup, the  *)
(* output of the post-processing pass is well nested too: an annotation    *)
(* span it inserts never overlaps in part an element that is already in    *)
(* the buffer.  A marker between <u> and </u> does not give a span that    *)
(* opens outside the element and closes inside it.                         *)
(***************************************************************************)
\* The name of the tag that begins at p: the characters after < or </ up to
\* a blank, a slash or >.
TagName(s, p) ==
    LET from == IF At(s, p + 1) = "/" THEN p + 2 ELSE p + 1
    IN  SubSeq(s, from + 1, FindCharIn(s, {" ", "/", ">"}, from))

\* Reading s from p with the elements in stack open: every closing tag
\* closes the element opened last, and none is left open.  A raw marker and
\* a tag that closes itself (<br />) open nothing.
RECURSIVE NestedFrom(_, _, _)
NestedFrom(s, p, stack) ==
    LET lt == FindChar(s, "<", p)
        gt == IF lt = -1 THEN -1 ELSE FindChar(s, ">", lt)
    IN  IF gt = -1 THEN stack = <<>>
        ELSE IF MarkerEnd(s, lt) # -1 \/ At(s, gt - 1) = "/"
        THEN NestedFrom(s, gt + 1, stack)
        ELSE IF At(s, lt + 1) = "/"
        THEN /\ stack # <<>>
             /\ stack[Len(stack)] = TagName(s, lt)
             /\ NestedFrom(s, gt + 1, SubSeq(stack, 1, Len(stack) - 1))
        ELSE NestedFrom(s, gt + 1, Append(stack, TagName(s, lt)))

WellNested(s) == NestedFrom(s, 0, <<>>)

WellNestedPreserved == (FirstRunDone /\ WellNested(filtered)) => WellNested(buf)

====
